---- MODULE Spec2Model ----
(***************************************************************************)
(* A model of yuri.py (jparise/yuri): the percent codec (encode, decode),  *)
(* the QueryDict ordered multimap and the URI component model.             *)
(*                                                                         *)
(* Strings are Python 2 byte strings (str): sequences of code points in    *)
(* 0..255.  ord() and chr() are therefore the identity on a character;     *)
(* every other conversion (hex formatting, hex parsing, lower(), int(),    *)
(* str() of an integer) is computed as the code computes it.               *)
(***************************************************************************)
EXTENDS Integers, Sequences, FiniteSets, TLC

\* ---------------------------------------------------------------- bounds
\* Longest query string handed to QueryDict.parse.
MaxQueryLen == 4
\* Most values a QueryDict holds (guards of the growing operations).
MaxValues == 3
\* Longest string handed to decode / encode in the codec specification.
MaxCodecLen == 4
\* Longest string of unescaped text handed to encode.
MaxPlainLen == 2

\* ------------------------------------------------------- character codes
Percent == 37
Plus == 43
Space == 32
Slash == 47
Amp == 38
Semi == 59
Equals == 61
Colon == 58
At == 64
Question == 63
Hash == 35
MaxPort == 65535

\* Python values that may be None carry their type: None, a str or an int.
None == [none |-> TRUE]
PyStr(s) == [str |-> s]
PyInt(n) == [int |-> n]
\* Truth value of such a value: None, '' and 0 are false.
Truthy(v) ==
    IF v = None THEN FALSE
    ELSE IF "str" \in DOMAIN v THEN v.str # <<>>
    ELSE v.int # 0

\* ------------------------------------------------------------ str helpers
\* s.lower() on a byte string (C locale): only A-Z change.
Lower(s) == [i \in 1..Len(s) |-> IF s[i] \in 65..90 THEN s[i] + 32 ELSE s[i]]

\* s.replace(old, new) for single characters.
Replace(s, old, new) == [i \in 1..Len(s) |-> IF s[i] = old THEN new ELSE s[i]]

\* s.split(sep) / re.split('[..]', s): the pieces between separators; a
\* string with n separators gives n + 1 pieces (possibly empty).
RECURSIVE Split(_, _)
Split(s, seps) ==
    IF \A i \in 1..Len(s) : s[i] \notin seps
    THEN <<s>>
    ELSE LET i == CHOOSE k \in 1..Len(s) :
                      /\ s[k] \in seps
                      /\ \A j \in 1..(k - 1) : s[j] \notin seps
         IN <<SubSeq(s, 1, i - 1)>> \o Split(SubSeq(s, i + 1, Len(s)), seps)

\* ''.join of a sequence of strings with a one-character separator.
RECURSIVE Join(_, _)
Join(parts, sep) ==
    IF parts = <<>> THEN <<>>
    ELSE IF Len(parts) = 1 THEN parts[1]
    ELSE parts[1] \o <<sep>> \o Join(Tail(parts), sep)

\* ---------------------------------------------------------- percent codec
unreserved_characters == (65..90) \cup (97..122) \cup (48..57) \cup {95, 46, 45, 126}

\* A hex digit printed in lower case, as '{:x}' would.
HexDigit_lower(n) == IF n < 10 THEN 48 + n ELSE 87 + n

\* One upper-case hex digit, as '{:X}' prints it.
HexDigit(n) == IF n < 10 THEN 48 + n ELSE 55 + n

RECURSIVE HexUpper(_)
HexUpper(n) ==
    IF n < 16 THEN <<HexDigit(n)>>
    ELSE HexUpper(n \div 16) \o <<HexDigit(n % 16)>>

\* '%{:02X}'.format(ordinal): at least two digits, zero padded.
Format02X(n) ==
    LET h == HexUpper(n)
    IN <<Percent>> \o (IF Len(h) < 2 THEN <<48>> \o h ELSE h)

RECURSIVE EncodeChars(_, _)
EncodeChars(s, safe) ==
    IF s = <<>> THEN <<>>
    ELSE (IF s[1] < 128 /\ s[1] \in safe THEN <<s[1]>> ELSE Format02X(s[1]))
         \o EncodeChars(Tail(s), safe)

\* An encode that takes '%' for a safe character.
encode_percent_safe(s, query) ==
    LET safe == unreserved_characters \cup {Percent}
                \cup (IF query THEN {Space} ELSE {Slash})
        encoded == EncodeChars(s, safe)
    IN IF query THEN Replace(encoded, Space, Plus) ELSE encoded

encode(s, query) ==
    LET safe == unreserved_characters \cup (IF query THEN {Space} ELSE {Slash})
        encoded == EncodeChars(s, safe)
    IN IF query THEN Replace(encoded, Space, Plus) ELSE encoded

\* A to_int that knows the lower-case hex letters only.
to_int_lower(c) ==
    IF c \in 48..57 THEN c - 48
    ELSE IF c \in 97..102 THEN c - 97 + 10 ELSE 0 - 1

\* binascii's to_int: the value of a hex digit, -1 for any other character.
to_int(c) ==
    IF c \in 48..57 THEN c - 48
    ELSE LET l == IF c \in 65..90 THEN c + 32 ELSE c
         IN IF l \in 97..102 THEN l - 97 + 10 ELSE 0 - 1

\* binascii.unhexlify of two characters: the byte, or TypeError ("Non-hexadecimal
\* digit found") when either is no hex digit.
unhexlify(two) ==
    IF to_int(two[1]) < 0 \/ to_int(two[2]) < 0
    THEN [raised |-> TRUE, byte |-> 0]
    ELSE [raised |-> FALSE, byte |-> 16 * to_int(two[1]) + to_int(two[2])]

\* The body of decode's loop for one chunk after the first.
DecodeChunk(chunk) ==
    IF Len(chunk) < 2 THEN <<Percent>> \o chunk
    ELSE LET byte == unhexlify(SubSeq(chunk, 1, 2))
         IN IF byte.raised THEN <<Percent>> \o chunk
            ELSE <<byte.byte>> \o SubSeq(chunk, 3, Len(chunk))

RECURSIVE DecodeChunks(_)
DecodeChunks(chunks) ==
    IF chunks = <<>> THEN <<>>
    ELSE DecodeChunk(chunks[1]) \o DecodeChunks(Tail(chunks))

decode(s, query) ==
    LET s1 == IF query THEN Replace(s, Plus, Space) ELSE s
        chunks == Split(s1, {Percent})
    IN chunks[1] \o DecodeChunks(Tail(chunks))

\* -------------------------------------------------------------- QueryDict
\* A QueryDict is the ordered dictionary it inherits from: a sequence of
\* fields in insertion order of their keys.  A field's value is a str
\* (isList = FALSE, values = <<the string>>) or a list of str (isList = TRUE).
Scalar(key, v) == [name |-> key, isList |-> FALSE, values |-> <<v>>]
List(key, vs) == [name |-> key, isList |-> TRUE, values |-> vs]

\* Position of a key in the dictionary, 0 when it is missing.
IndexOf(q, key) ==
    IF \E i \in 1..Len(q) : q[i].name = key
    THEN CHOOSE i \in 1..Len(q) : q[i].name = key
    ELSE 0

\* OrderedDict.__setitem__: a new key goes last, an old key keeps its place.
OrderedDict_setitem(q, field) ==
    LET i == IndexOf(q, field.name)
    IN IF i = 0 THEN Append(q, field) ELSE [q EXCEPT ![i] = field]

\* OrderedDict.__delitem__ of a key that is present.
OrderedDict_delitem(q, key) ==
    LET i == IndexOf(q, key)
    IN SubSeq(q, 1, i - 1) \o SubSeq(q, i + 1, Len(q))

\* __contains__ that forgets to lower-case the name.
QueryDict_contains_cased(q, name) == IndexOf(q, name) # 0

QueryDict_contains(q, name) == IndexOf(q, Lower(name)) # 0

\* get(name, default): the str, the list, or the default.
QueryDict_get(q, name, default) ==
    LET i == IndexOf(q, Lower(name))
    IN IF i = 0 THEN default
       ELSE IF q[i].isList THEN [list |-> q[i].values]
       ELSE PyStr(q[i].values[1])

\* __setitem__: the value is stored as str(value), a scalar.
QueryDict_setitem(q, name, value) ==
    OrderedDict_setitem(q, Scalar(Lower(name), value))

\* __delitem__: KeyError when the lower-cased name is missing.
QueryDict_delitem(q, name) ==
    IF IndexOf(q, Lower(name)) = 0
    THEN [q |-> q, res |-> "KeyError"]
    ELSE [q |-> OrderedDict_delitem(q, Lower(name)), res |-> "ok"]

\* add that overwrites a str instead of promoting it to a list.
QueryDict_add_overwrite(q, name, value) ==
    LET key == Lower(name)
        i == IndexOf(q, key)
    IN IF i # 0 /\ q[i].isList
       THEN OrderedDict_setitem(q, List(key, Append(q[i].values, value)))
       ELSE OrderedDict_setitem(q, Scalar(key, value))

QueryDict_add(q, name, value) ==
    LET key == Lower(name)
        i == IndexOf(q, key)
    IN IF QueryDict_contains(q, key)
       THEN OrderedDict_setitem(q, List(key, Append(q[i].values, value)))
       ELSE OrderedDict_setitem(q, Scalar(key, value))

\* list.remove(x): drops the first element equal to x (ValueError when none).
list_remove(vs, x) ==
    LET i == CHOOSE k \in 1..Len(vs) : vs[k] = x /\ \A j \in 1..(k - 1) : vs[j] # x
    IN SubSeq(vs, 1, i - 1) \o SubSeq(vs, i + 1, Len(vs))

\* remove that raises KeyError for a str that differs from the value.
QueryDict_remove_strict(q, name, value) ==
    LET key == Lower(name)
        i == IndexOf(q, key)
    IN IF i = 0 THEN [q |-> q, res |-> "KeyError"]
       ELSE IF q[i].isList
       THEN IF \A k \in 1..Len(q[i].values) : q[i].values[k] # value
            THEN [q |-> q, res |-> "ValueError"]
            ELSE LET values == list_remove(q[i].values, value)
                 IN IF Len(values) = 1
                    THEN [q |-> QueryDict_setitem(q, key, values[1]), res |-> "ok"]
                    ELSE [q |-> [q EXCEPT ![i] = List(key, values)], res |-> "ok"]
       ELSE IF value = q[i].values[1]
       THEN [q |-> OrderedDict_delitem(q, key), res |-> "ok"]
       ELSE [q |-> q, res |-> "KeyError"]

\* remove that leaves a one-item list in place.
QueryDict_remove_nocollapse(q, name, value) ==
    LET key == Lower(name)
        i == IndexOf(q, key)
    IN IF i = 0 THEN [q |-> q, res |-> "KeyError"]
       ELSE IF q[i].isList
       THEN IF \A k \in 1..Len(q[i].values) : q[i].values[k] # value
            THEN [q |-> q, res |-> "ValueError"]
            ELSE [q |-> [q EXCEPT ![i] = List(key, list_remove(q[i].values, value))],
                  res |-> "ok"]
       ELSE IF value = q[i].values[1]
       THEN [q |-> OrderedDict_delitem(q, key), res |-> "ok"]
       ELSE [q |-> q, res |-> "ok"]

QueryDict_remove(q, name, value) ==
    LET key == Lower(name)
        i == IndexOf(q, key)
    IN IF i = 0 THEN [q |-> q, res |-> "KeyError"]
       ELSE IF q[i].isList
       THEN IF \A k \in 1..Len(q[i].values) : q[i].values[k] # value
            THEN [q |-> q, res |-> "ValueError"]
            ELSE LET values == list_remove(q[i].values, value)
                 IN IF Len(values) = 1
                    THEN [q |-> QueryDict_setitem(q, key, values[1]), res |-> "ok"]
                    ELSE IF values = <<>>
                    THEN [q |-> OrderedDict_delitem(q, key), res |-> "ok"]
                    ELSE [q |-> [q EXCEPT ![i] = List(key, values)], res |-> "ok"]
       ELSE IF value = q[i].values[1]
       THEN [q |-> OrderedDict_delitem(q, key), res |-> "ok"]
       ELSE [q |-> q, res |-> "ok"]

\* A parse loop that does not skip the empty items.
ParsePair_noskip(pair) ==
    LET parts == Split(pair, {Equals})
    IN IF Len(parts) = 2
       THEN [skip |-> FALSE, name |-> decode(parts[1], TRUE),
             value |-> decode(parts[2], TRUE)]
       ELSE [skip |-> FALSE, name |-> decode(pair, TRUE), value |-> <<>>]

\* One turn of parse's loop: the (name, value) it adds, or skip.
ParsePair(pair) ==
    LET parts == Split(pair, {Equals})
    IN IF Len(parts) = 2
       THEN [skip |-> FALSE, name |-> decode(parts[1], TRUE),
             value |-> decode(parts[2], TRUE)]
       ELSE IF pair = <<>>
       THEN [skip |-> TRUE, name |-> <<>>, value |-> <<>>]
       ELSE [skip |-> FALSE, name |-> decode(pair, TRUE), value |-> decode(<<>>, TRUE)]

\* The (name, value) pairs parse hands to add, in order.
RECURSIVE ParsePairs(_)
ParsePairs(pairs) ==
    IF pairs = <<>> THEN <<>>
    ELSE LET p == ParsePair(pairs[1])
         IN (IF p.skip THEN <<>> ELSE <<[name |-> p.name, value |-> p.value]>>)
            \o ParsePairs(Tail(pairs))

RECURSIVE AddAll(_, _)
AddAll(q, nvs) ==
    IF nvs = <<>> THEN q
    ELSE AddAll(QueryDict_add(q, nvs[1].name, nvs[1].value), Tail(nvs))

QueryDict_parse(q, query) == AddAll(q, ParsePairs(Split(query, {Amp, Semi})))

\* What "for value in values" yields: the items of a list, and the
\* characters (one-character strings) of a str.
Iterate(field) ==
    IF field.isList THEN field.values
    ELSE [k \in 1..Len(field.values[1]) |-> <<field.values[1][k]>>]

RECURSIVE StrPairs(_)
StrPairs(q) ==
    IF q = <<>> THEN <<>>
    ELSE LET name == encode(q[1].name, TRUE)
             values == Iterate(q[1])
         IN [k \in 1..Len(values) |-> name \o <<Equals>> \o encode(values[k], TRUE)]
            \o StrPairs(Tail(q))

QueryDict_str(q) == Join(StrPairs(q), Amp)

RECURSIVE NumValues(_)
NumValues(q) == IF q = <<>> THEN 0 ELSE Len(q[1].values) + NumValues(Tail(q))

\* --------------------------------------------------------------------- URI
\* QueryDict(query): empty for None, else the parse of the string.
QueryDict_init(query) ==
    IF query = None THEN <<>> ELSE QueryDict_parse(<<>>, query.str)

RECURSIVE DigitsValue(_)
DigitsValue(s) ==
    IF s = <<>> THEN 0
    ELSE 10 * DigitsValue(SubSeq(s, 1, Len(s) - 1)) + (s[Len(s)] - 48)

\* int(x): an int is itself; a str must be an optional sign and decimal
\* digits, anything else raises ValueError.
int(v) ==
    IF "int" \in DOMAIN v THEN [raised |-> FALSE, n |-> v.int]
    ELSE LET s == v.str
             signed == s # <<>> /\ s[1] \in {Plus, 45}
             digits == IF signed THEN Tail(s) ELSE s
         IN IF digits = <<>> \/ \E i \in 1..Len(digits) : digits[i] \notin 48..57
            THEN [raised |-> TRUE, n |-> 0]
            ELSE [raised |-> FALSE,
                  n |-> IF signed /\ s[1] = 45 THEN 0 - DigitsValue(digits)
                        ELSE DigitsValue(digits)]

\* str(n) of a non-negative int.
RECURSIVE str_int(_)
str_int(n) == IF n < 10 THEN <<48 + n>> ELSE str_int(n \div 10) \o <<48 + (n % 10)>>

\* A port setter that stores the number before it checks the range.
URI_set_port_unchecked(u, port) ==
    IF port = None THEN [uri |-> [u EXCEPT !.port = None], res |-> "ok"]
    ELSE LET n == int(port)
         IN IF n.raised THEN [uri |-> u, res |-> "ValueError"]
            ELSE [uri |-> [u EXCEPT !.port = PyInt(n.n)],
                  res |-> IF n.n < 0 \/ n.n > MaxPort THEN "ValueError" ELSE "ok"]

\* The port setter: None clears; otherwise int(port) within 0..65535 is
\* stored, and ValueError is raised before anything is stored.
URI_set_port(u, port) ==
    IF port = None THEN [uri |-> [u EXCEPT !.port = None], res |-> "ok"]
    ELSE LET n == int(port)
         IN IF n.raised THEN [uri |-> u, res |-> "ValueError"]
            ELSE IF n.n < 0 \/ n.n > MaxPort THEN [uri |-> u, res |-> "ValueError"]
            ELSE [uri |-> [u EXCEPT !.port = PyInt(n.n)], res |-> "ok"]

\* URI.__init__: the attributes in the order the code assigns them; a port
\* the setter rejects ends the construction.
URI_init(scheme, userinfo, host, port, path, query, fragment) ==
    LET u0 == [scheme |-> scheme, userinfo |-> userinfo, host |-> host,
               port |-> None, path |-> None, query |-> <<>>, fragment |-> None]
        r == URI_set_port(u0, port)
    IN IF r.res # "ok" THEN r
       ELSE [uri |-> [r.uri EXCEPT !.path = path,
                                   !.query = QueryDict_init(query),
                                   !.fragment = fragment],
             res |-> "ok"]

URI_str(u) ==
    LET s1 == IF Truthy(u.scheme) THEN u.scheme.str \o <<Colon>> ELSE <<>>
        s2 == IF Truthy(u.userinfo) \/ Truthy(u.host) \/ Truthy(u.port)
              THEN <<Slash, Slash>>
                   \o (IF Truthy(u.userinfo) THEN u.userinfo.str \o <<At>> ELSE <<>>)
                   \o (IF Truthy(u.host) THEN u.host.str ELSE <<>>)
                   \o (IF Truthy(u.port) THEN <<Colon>> \o str_int(u.port.int) ELSE <<>>)
              ELSE <<>>
        s3 == IF Truthy(u.path) THEN u.path.str ELSE <<>>
        s4 == IF u.query # <<>> THEN <<Question>> \o QueryDict_str(u.query) ELSE <<>>
        s5 == IF Truthy(u.fragment) THEN <<Hash>> \o u.fragment.str ELSE <<>>
    IN s1 \o s2 \o s3 \o s4 \o s5

\* ------------------------------------------------------------------ state
VARIABLES
    q,          \* the QueryDict
    pre,        \* the QueryDict before the last operation
    op,         \* the last operation and its arguments
    res,        \* how it ended: "ok" or the exception raised
    log,        \* the (name, value) pairs handed to add since the dict was empty
    onlyAdds,   \* TRUE while nothing but add and parse has touched the dict
    uri,        \* the URI object
    uport,      \* its port before the last operation
    uop,        \* the last URI operation and the port it was given
    ures,       \* how it ended: "ok" or the exception raised
    cod         \* one call of the codec: function, arguments, result

qvars == <<q, pre, op, res, log, onlyAdds>>
uvars == <<uri, uport, uop, ures>>
vars == <<q, pre, op, res, log, onlyAdds, uri, uport, uop, ures, cod>>

\* --------------------------------------------------------------- inputs
\* Names given to add / remove / set / del / get: a, A, b, B.
NameInputs == {<<97>>, <<65>>, <<98>>, <<66>>}
\* Values: '', '1', '12'.
ValueInputs == {<<>>, <<49>>, <<49, 50>>}
\* Characters of the query strings: a A = & ; % +
QueryChars == {97, 65, Equals, Amp, Semi, Percent, Plus}

StringsOver(chars, n) == UNION {[1..k -> chars] : k \in 0..n}
QueryInputs == StringsOver(QueryChars, MaxQueryLen)
\* Query strings parsed in the middle of other operations:
\* '', '=', 'a', 'a=1&A=12', 'b=%31;B'
ParseInputs == {<<>>, <<61>>, <<97>>,
                <<97, 61, 49, 38, 65, 61, 49, 50>>,
                <<98, 61, 37, 51, 49, 59, 66>>}
\* Query strings a QueryDict is constructed from before one more parse:
\* '', 'a=1', 'a=1&a=2'
SeedQueries == {<<>>, <<97, 61, 49>>, <<97, 61, 49, 38, 97, 61, 50>>}

\* URI components: None or 'http'; 'jon'; 'www.example.com'; '' or '/path';
\* 'a=1' or 'a=1&b=12'; 'top'.
SchemeInputs == {None, PyStr(<<104, 116, 116, 112>>)}
UserinfoInputs == {None, PyStr(<<106, 111, 110>>)}
HostInputs == {None, PyStr(<<119, 119, 119, 46, 101, 120, 97, 109, 112, 108, 101, 46, 99, 111, 109>>)}
PathInputs == {None, PyStr(<<>>), PyStr(<<47, 112, 97, 116, 104>>)}
QueryArgInputs == {None, PyStr(<<97, 61, 49>>), PyStr(<<97, 61, 49, 38, 98, 61, 49, 50>>)}
FragmentInputs == {None, PyStr(<<116, 111, 112>>)}
\* Ports: None, ints inside and outside the range, and the strings
\* '8080', '0', '65535', '65536', '-100', 'x'.
PortInputs ==
    {None} \cup {PyInt(n) : n \in {0 - 100, 0 - 1, 0, 1, 8080, MaxPort, MaxPort + 1}}
    \cup {PyStr(<<56, 48, 56, 48>>), PyStr(<<48>>), PyStr(<<54, 53, 53, 51, 53>>),
          PyStr(<<54, 53, 53, 51, 54>>), PyStr(<<45, 49, 48, 48>>), PyStr(<<120>>)}

\* Characters of the strings given to the codec: % + x a b B 4
CodecChars == {Percent, Plus, 120, 97, 98, 66, 52}
\* Longer strings of the documentation and the tests:
\* '%Ab%eA', 'two+words', '/two words', 'ab[]cd'
\* Characters of unescaped text: a Z 5 ~ space / % + [ and the code points
\* 31 and 233.
PlainChars == {97, 90, 53, 126, Space, Slash, Percent, Plus, 91, 31, 233}
\* Short unescaped texts, and every single character of a byte string.
PlainInputs ==
    StringsOver(PlainChars, MaxPlainLen) \cup {<<c>> : c \in 0..255}

CodecInputs ==
    StringsOver(CodecChars, MaxCodecLen)
    \cup {<<37, 65, 98, 37, 101, 65>>,
          <<116, 119, 111, 43, 119, 111, 114, 100, 115>>,
          <<47, 116, 119, 111, 32, 119, 111, 114, 100, 115>>,
          <<97, 98, 91, 93, 99, 100>>}

Op(kind, name, value, query) ==
    [kind |-> kind, name |-> name, value |-> value, query |-> query]

Logged(nvs) == [k \in 1..Len(nvs) |-> [name |-> Lower(nvs[k].name), value |-> nvs[k].value]]

\* ---------------------------------------------------------- initial parts
\* QueryDict(): an empty dictionary on which nothing has been called.
QFresh ==
    /\ q = <<>>
    /\ pre = <<>>
    /\ op = Op("init", <<>>, <<>>, <<>>)
    /\ res = "ok"
    /\ log = <<>>
    /\ onlyAdds = TRUE

\* URI(): every component None, an empty query.
UFresh ==
    /\ uri = URI_init(None, None, None, None, None, None, None).uri
    /\ uport = None
    /\ uop = [kind |-> "init", port |-> None]
    /\ ures = "ok"

\* No codec call made.
CFresh == cod = [fn |-> "none", s |-> <<>>, query |-> FALSE, out |-> <<>>]

\* ------------------------------------------------------ QueryDict actions
QInit == QFresh /\ UFresh /\ CFresh

Parse(query) ==
    LET nvs == ParsePairs(Split(query, {Amp, Semi}))
    IN /\ NumValues(q) + Len(nvs) <= MaxValues
       /\ q' = QueryDict_parse(q, query)
       /\ pre' = q
       /\ op' = Op("parse", <<>>, <<>>, query)
       /\ res' = "ok"
       /\ log' = log \o Logged(nvs)
       /\ UNCHANGED <<onlyAdds, uvars, cod>>

Add(name, value) ==
    /\ NumValues(q) < MaxValues
    /\ q' = QueryDict_add(q, name, value)
    /\ pre' = q
    /\ op' = Op("add", name, value, <<>>)
    /\ res' = "ok"
    /\ log' = Append(log, [name |-> Lower(name), value |-> value])
    /\ UNCHANGED <<onlyAdds, uvars, cod>>

Remove(name, value) ==
    LET r == QueryDict_remove(q, name, value)
    IN /\ q' = r.q
       /\ pre' = q
       /\ op' = Op("remove", name, value, <<>>)
       /\ res' = r.res
       /\ log' = <<>>
       /\ onlyAdds' = (r.q = <<>>)
       /\ UNCHANGED <<uvars, cod>>

SetItem(name, value) ==
    /\ QueryDict_contains(q, name) \/ NumValues(q) < MaxValues
    /\ q' = QueryDict_setitem(q, name, value)
    /\ pre' = q
    /\ op' = Op("set", name, value, <<>>)
    /\ res' = "ok"
    /\ log' = <<>>
    /\ onlyAdds' = FALSE
    /\ UNCHANGED <<uvars, cod>>

DelItem(name) ==
    LET r == QueryDict_delitem(q, name)
    IN /\ q' = r.q
       /\ pre' = q
       /\ op' = Op("del", name, <<>>, <<>>)
       /\ res' = r.res
       /\ log' = <<>>
       /\ onlyAdds' = (r.q = <<>>)
       /\ UNCHANGED <<uvars, cod>>

Clear ==
    /\ q' = <<>>
    /\ pre' = q
    /\ op' = Op("clear", <<>>, <<>>, <<>>)
    /\ res' = "ok"
    /\ log' = <<>>
    /\ onlyAdds' = TRUE
    /\ UNCHANGED <<uvars, cod>>

QNext ==
    \/ \E query \in ParseInputs : Parse(query)
    \/ \E name \in NameInputs, value \in ValueInputs : Add(name, value)
    \/ \E name \in NameInputs, value \in ValueInputs : Remove(name, value)
    \/ \E name \in NameInputs, value \in ValueInputs : SetItem(name, value)
    \/ \E name \in NameInputs : DelItem(name)
    \/ Clear

SpecQuery == QInit /\ [][QNext]_vars

\* QueryDict(seed) followed by one parse(query) of any short query string.
PInit ==
    \E seed \in SeedQueries :
        /\ q = QueryDict_init(PyStr(seed))
        /\ pre = <<>>
        /\ op = Op("init", <<>>, <<>>, seed)
        /\ res = "ok"
        /\ log = Logged(ParsePairs(Split(seed, {Amp, Semi})))
        /\ onlyAdds = TRUE
        /\ UFresh
        /\ CFresh

PNext == op.kind = "init" /\ \E query \in QueryInputs : Parse(query)

SpecParse == PInit /\ [][PNext]_vars

\* ------------------------------------------------------------ URI actions
\* URI(scheme, ..., fragment): a new object, unless the port is rejected.
Construct(scheme, userinfo, host, port, path, query, fragment) ==
    LET r == URI_init(scheme, userinfo, host, port, path, query, fragment)
    IN /\ uop.kind = "init"
       /\ uri' = IF r.res = "ok" THEN r.uri ELSE uri
       /\ uport' = uri.port
       /\ uop' = [kind |-> "construct", port |-> port]
       /\ ures' = r.res
       /\ UNCHANGED <<qvars, cod>>

\* uri.port = port
SetPort(port) ==
    LET r == URI_set_port(uri, port)
    IN /\ uri' = r.uri
       /\ uport' = uri.port
       /\ uop' = [kind |-> "setport", port |-> port]
       /\ ures' = r.res
       /\ UNCHANGED <<qvars, cod>>

UInit == QFresh /\ UFresh /\ CFresh

UNext ==
    \/ \E scheme \in SchemeInputs, userinfo \in UserinfoInputs, host \in HostInputs,
          port \in PortInputs, path \in PathInputs, query \in QueryArgInputs,
          fragment \in FragmentInputs :
            Construct(scheme, userinfo, host, port, path, query, fragment)
    \/ \E port \in PortInputs : SetPort(port)

SpecURI == UInit /\ [][UNext]_vars

\* ---------------------------------------------------------- codec actions
Decode ==
    /\ cod.fn = "none"
    /\ cod' = [cod EXCEPT !.fn = "decode", !.out = decode(cod.s, cod.query)]
    /\ UNCHANGED <<qvars, uvars>>

Encode ==
    /\ cod.fn = "none"
    /\ cod' = [cod EXCEPT !.fn = "encode", !.out = encode(cod.s, cod.query)]
    /\ UNCHANGED <<qvars, uvars>>

\* decode(encode(s, query), query)
RoundTrip ==
    /\ cod.fn = "none"
    /\ cod' = [cod EXCEPT !.fn = "roundtrip",
                          !.out = decode(encode(cod.s, cod.query), cod.query)]
    /\ UNCHANGED <<qvars, uvars>>

CInit ==
    /\ QFresh
    /\ UFresh
    /\ \E s \in CodecInputs \cup PlainInputs, query \in BOOLEAN :
          cod = [fn |-> "none", s |-> s, query |-> query, out |-> <<>>]

CNext == Decode \/ Encode \/ RoundTrip

SpecCodec == CInit /\ [][CNext]_vars

\* ============================================================== claims
\* ------------------------------------------------------- shared notions
\* Two names that differ at most in letter case.
SameModuloCase(a, b) ==
    /\ Len(a) = Len(b)
    /\ \A i \in 1..Len(a) :
          \/ a[i] = b[i]
          \/ a[i] \in 65..90 /\ b[i] = a[i] + 32
          \/ b[i] \in 65..90 /\ a[i] = b[i] + 32

HasNoUpper(s) == \A i \in 1..Len(s) : s[i] \notin 65..90

\* The fields of d whose key is name up to letter case.
FieldsNamed(d, name) == {i \in 1..Len(d) : SameModuloCase(d[i].name, name)}

Without(s, k) == SubSeq(s, 1, k - 1) \o SubSeq(s, k + 1, Len(s))

\* The values logged for a key, in the order they were added.
LoggedValues(key) ==
    LET mine == SelectSeq(log, LAMBDA e : e.name = key)
    IN [k \in 1..Len(mine) |-> mine[k].value]

FirstLogged(key) == CHOOSE k \in 1..Len(log) :
                        log[k].name = key /\ \A j \in 1..(k - 1) : log[j].name # key

\* ------------------------------------------------------------------- C1
RECURSIVE OnePairPerValue(_)
OnePairPerValue(d) ==
    IF d = <<>> THEN <<>>
    ELSE [k \in 1..Len(d[1].values) |->
             encode(d[1].name, TRUE) \o <<Equals>> \o encode(d[1].values[k], TRUE)]
         \o OnePairPerValue(Tail(d))

\* C1: str(q) is one 'encode(name)=encode(value)' pair per stored value (a
\* str field being one value whatever its length), fields in insertion
\* order, values in the order added, joined by '&'; the number of pairs is
\* the number of stored values.
C1_StrOnePairPerValue ==
    /\ QueryDict_str(q) = Join(OnePairPerValue(q), Amp)
    /\ Len(StrPairs(q)) = NumValues(q)

\* ------------------------------------------------------------------- C2
\* C2: add stores a str under an absent name, promotes a str to the list
\* [old, new], appends to a list, and leaves every other field and every
\* position alone; after adds only, get(name) is a str iff the name was
\* added once and otherwise the list of all its added values in order.
C2_AddPromotesAndAppends ==
    /\ op.kind = "add" =>
         LET key == [k \in 1..Len(op.name) |->
                        IF op.name[k] \in 65..90 THEN op.name[k] + 32 ELSE op.name[k]]
             old == {i \in 1..Len(pre) : pre[i].name = key}
         IN IF old = {}
            THEN q = Append(pre, [name |-> key, isList |-> FALSE, values |-> <<op.value>>])
            ELSE /\ Len(q) = Len(pre)
                 /\ \A i \in 1..Len(pre) :
                       IF i \in old
                       THEN /\ q[i].name = key
                            /\ q[i].isList
                            /\ q[i].values = pre[i].values \o <<op.value>>
                       ELSE q[i] = pre[i]
    /\ onlyAdds =>
         /\ \A k \in 1..Len(log) : \E i \in 1..Len(q) : q[i].name = log[k].name
         /\ \A i \in 1..Len(q) :
               /\ q[i].values = LoggedValues(q[i].name)
               /\ q[i].isList <=> Len(LoggedValues(q[i].name)) # 1
               /\ \A j \in 1..Len(q) :
                     i < j => FirstLogged(q[i].name) < FirstLogged(q[j].name)
         /\ \A n \in NameInputs :
               LET added == LoggedValues(Lower(n))
               IN QueryDict_get(q, n, None) =
                      IF added = <<>> THEN None
                      ELSE IF Len(added) = 1 THEN [str |-> added[1]]
                      ELSE [list |-> added]

\* A str was promoted to a two-item list while another field kept its place.
C2_Witness ==
    /\ op.kind = "add"
    /\ onlyAdds
    /\ Len(q) = 2
    /\ \E i \in 1..Len(pre) : ~pre[i].isList /\ q[i].isList /\ Len(q[i].values) = 2

\* ------------------------------------------------------------------- C3
\* C3: a remove that finds the value removes exactly one occurrence of it
\* and keeps the rest in order: an equal str field is deleted, a list left
\* with one value becomes that str in the same position, a list left with
\* two or more stays a list; in every reachable state each field holds at
\* least one value and is a list iff it holds two or more.
C3_RemoveOneAndCollapse ==
    /\ \A i \in 1..Len(q) :
          /\ Len(q[i].values) >= 1
          /\ q[i].isList <=> Len(q[i].values) >= 2
    /\ op.kind = "remove" =>
         \A i \in FieldsNamed(pre, op.name) :
            LET old == pre[i].values
            IN (\E k \in 1..Len(old) : old[k] = op.value) =>
                 /\ res = "ok"
                 /\ IF Len(old) = 1
                    THEN q = Without(pre, i)
                    ELSE /\ Len(q) = Len(pre)
                         /\ \A j \in 1..Len(pre) : j # i => q[j] = pre[j]
                         /\ q[i].name = pre[i].name
                         /\ \E k \in 1..Len(old) :
                               old[k] = op.value /\ q[i].values = Without(old, k)
                         /\ q[i].isList <=> Len(old) >= 3

\* A two-item list collapsed to a str, in place, next to another field.
C3_Witness ==
    /\ op.kind = "remove"
    /\ res = "ok"
    /\ Len(pre) = 2
    /\ Len(q) = 2
    /\ \E i \in 1..2 : pre[i].isList /\ Len(pre[i].values) = 2 /\ ~q[i].isList

\* ------------------------------------------------------------------- C4
\* C4 as stated: remove never returns normally when the name is absent or
\* the value is not among the field's values.
C4_RemoveAbsentAlwaysFails ==
    op.kind = "remove" =>
        /\ FieldsNamed(pre, op.name) = {} => res # "ok"
        /\ \A i \in FieldsNamed(pre, op.name) :
              (\A k \in 1..Len(pre[i].values) : pre[i].values[k] # op.value)
                  => res # "ok"

\* C4 (amended): remove raises KeyError when the name is absent and
\* ValueError when the field is a list without the value; when the field
\* is a str other than the value it returns normally; in all three cases
\* the dictionary is left as it was.
C4_RemoveAbsent ==
    op.kind = "remove" =>
        /\ FieldsNamed(pre, op.name) = {} => res = "KeyError" /\ q = pre
        /\ \A i \in FieldsNamed(pre, op.name) :
              (\A k \in 1..Len(pre[i].values) : pre[i].values[k] # op.value) =>
                  /\ q = pre
                  /\ res = IF pre[i].isList THEN "ValueError" ELSE "ok"

\* remove of a value other than the str a field holds returned normally.
C4_Witness ==
    /\ op.kind = "remove"
    /\ res = "ok"
    /\ \E i \in FieldsNamed(pre, op.name) :
          ~pre[i].isList /\ pre[i].values[1] # op.value

\* ------------------------------------------------------------------- C5
\* The non-empty pair-candidates of a query string, left to right: the
\* maximal runs of characters other than '&' and ';'.
RECURSIVE CandidatesFrom(_, _)
CandidatesFrom(query, i) ==
    IF i > Len(query) THEN <<>>
    ELSE IF query[i] \in {Amp, Semi} THEN CandidatesFrom(query, i + 1)
    ELSE LET j == CHOOSE e \in i..Len(query) :
                      /\ \A k \in i..e : query[k] \notin {Amp, Semi}
                      /\ e = Len(query) \/ query[e + 1] \in {Amp, Semi}
         IN <<SubSeq(query, i, j)>> \o CandidatesFrom(query, j + 1)

Candidates(query) == CandidatesFrom(query, 1)

EqualsIn(c) == {i \in 1..Len(c) : c[i] = Equals}

\* The pair a candidate stands for when it is split once, at its first '='.
SplitOnce(c) ==
    IF EqualsIn(c) = {} THEN [name |-> decode(c, TRUE), value |-> <<>>]
    ELSE LET e == CHOOSE i \in EqualsIn(c) : \A j \in EqualsIn(c) : i <= j
         IN [name |-> decode(SubSeq(c, 1, e - 1), TRUE),
             value |-> decode(SubSeq(c, e + 1, Len(c)), TRUE)]

SplitOnceAll(cs) == [k \in 1..Len(cs) |-> SplitOnce(cs[k])]

\* C5: parse splits every non-empty candidate once, at its first '=': the
\* name is the decoded text before it, the value the decoded text of all
\* that follows (further '=' included); without '=' the value is ''.
C5_SplitOnceAtFirstEquals ==
    op.kind = "parse" => q = AddAll(pre, SplitOnceAll(Candidates(op.query)))

\* ------------------------------------------------------------------- C6
\* C6: parse never raises; it splits on '&' or ';', skips every empty
\* candidate, makes '=' one field with empty name and value, gives the same
\* store for 'a' and 'a='; each non-empty candidate adds exactly one value,
\* in left-to-right order.
C6_ParseSkipsEmptyCandidates ==
    op.kind = "parse" =>
        LET cs == Candidates(op.query)
        IN /\ res = "ok"
           /\ NumValues(q) = NumValues(pre) + Len(cs)
           /\ cs = <<>> => q = pre
           /\ (\A k \in 1..Len(cs) : Cardinality(EqualsIn(cs[k])) <= 1)
                 => q = AddAll(pre, SplitOnceAll(cs))
           /\ op.query = <<Equals>>
                 => q = Append(pre, [name |-> <<>>, isList |-> FALSE, values |-> <<<<>>>>])
           /\ (Len(cs) = 1 /\ cs[1] = op.query /\ EqualsIn(op.query) = {})
                 => q = QueryDict_parse(pre, op.query \o <<Equals>>)

\* 'a&;A' parsed into an empty dictionary: the empty candidate is skipped
\* and the two others land, in order, in the one field 'a'.
C6_Witness ==
    /\ op.kind = "parse"
    /\ op.query = <<97, Amp, Semi, 65>>
    /\ pre = <<>>
    /\ q = <<[name |-> <<97>>, isList |-> TRUE, values |-> <<<<>>, <<>>>>]>>

\* ------------------------------------------------------------------- C8
\* The reassembly the claim describes.  A str component is present when it
\* is neither None nor ''; a port is present when it is not None.
Reassembled(u) ==
    LET authority == Truthy(u.userinfo) \/ Truthy(u.host) \/ u.port # None
    IN (IF Truthy(u.scheme) THEN u.scheme.str \o <<Colon>> ELSE <<>>)
       \o (IF authority THEN <<Slash, Slash>> ELSE <<>>)
       \o (IF authority /\ Truthy(u.userinfo) THEN u.userinfo.str \o <<At>> ELSE <<>>)
       \o (IF authority /\ Truthy(u.host) THEN u.host.str ELSE <<>>)
       \o (IF u.port # None THEN <<Colon>> \o str_int(u.port.int) ELSE <<>>)
       \o (IF Truthy(u.path) THEN u.path.str ELSE <<>>)
       \o (IF u.query # <<>> THEN <<Question>> \o QueryDict_str(u.query) ELSE <<>>)
       \o (IF Truthy(u.fragment) THEN <<Hash>> \o u.fragment.str ELSE <<>>)

\* C8: str(URI) is 'scheme:', then '//' with 'userinfo@', host and ':port'
\* when userinfo, host or port is present (for every port 0..65535), then
\* the path, '?query' when the query is not empty, '#fragment'; and
\* http + www.example.com + 8080 + /path gives
\* 'http://www.example.com:8080/path'.
C8_StrReassembles ==
    /\ URI_str(uri) = Reassembled(uri)
    /\ (/\ uri.scheme = PyStr(<<104, 116, 116, 112>>)
        /\ uri.userinfo = None
        /\ uri.host = PyStr(<<119, 119, 119, 46, 101, 120, 97, 109, 112, 108, 101, 46, 99, 111, 109>>)
        /\ uri.port = PyInt(8080)
        /\ uri.path = PyStr(<<47, 112, 97, 116, 104>>)
        /\ uri.query = <<>>
        /\ uri.fragment = None)
          => URI_str(uri) = <<104, 116, 116, 112, 58, 47, 47, 119, 119, 119, 46, 101, 120, 97, 109, 112, 108, 101, 46, 99, 111, 109, 58, 56, 48, 56, 48, 47, 112, 97, 116, 104>>

\* ------------------------------------------------------------------- C9
\* C9: the stored port is None or an int in 0..65535; None clears it, an
\* int or numeric str in range is stored as an int (8080 and '8080' both
\* give 8080), and a value outside the range raises ValueError and leaves
\* the port as it was.
C9_PortInRange ==
    /\ \/ uri.port = None
       \/ "int" \in DOMAIN uri.port /\ uri.port.int \in 0..65535
    /\ uop.kind \in {"construct", "setport"} =>
          /\ uop.port = None => ures = "ok" /\ uri.port = None
          /\ \A n \in {0, 1, 8080, 65535} :
                uop.port = PyInt(n) => ures = "ok" /\ uri.port = PyInt(n)
          /\ uop.port = PyStr(<<56, 48, 56, 48>>) => ures = "ok" /\ uri.port = PyInt(8080)
          /\ uop.port = PyStr(<<48>>) => ures = "ok" /\ uri.port = PyInt(0)
          /\ uop.port = PyStr(<<54, 53, 53, 51, 53>>) => ures = "ok" /\ uri.port = PyInt(65535)
          /\ uop.port \in {PyInt(0 - 100), PyInt(0 - 1), PyInt(65536),
                           PyStr(<<54, 53, 53, 51, 54>>), PyStr(<<45, 49, 48, 48>>)}
                => ures = "ValueError" /\ uri.port = uport

\* Port 8080 survived the rejected assignment of 65536.
C9_Witness ==
    /\ uop = [kind |-> "setport", port |-> PyInt(65536)]
    /\ ures = "ValueError"
    /\ uport = PyInt(8080)
    /\ uri.port = PyInt(8080)

\* ------------------------------------------------------------------ C10
IsHexDigit(c) == c \in (48..57) \cup (65..70) \cup (97..102)

HexValue(c) ==
    IF c \in 48..57 THEN c - 48 ELSE IF c \in 65..70 THEN c - 55 ELSE c - 87

\* Decoding read off the text from left to right: '%' and two hex digits
\* is the character with that code, '+' is a space in a query, and every
\* other character, a '%' without two hex digits included, is itself.
RECURSIVE Scanned(_, _)
Scanned(s, query) ==
    IF s = <<>> THEN <<>>
    ELSE IF s[1] = Percent /\ Len(s) >= 3 /\ IsHexDigit(s[2]) /\ IsHexDigit(s[3])
    THEN <<16 * HexValue(s[2]) + HexValue(s[3])>> \o Scanned(SubSeq(s, 4, Len(s)), query)
    ELSE IF s[1] = Plus /\ query THEN <<Space>> \o Scanned(Tail(s), query)
    ELSE <<s[1]>> \o Scanned(Tail(s), query)

\* C10: decode returns for every string in both contexts; '%' and two hex
\* digits of either case become the character with that code, the rest of
\* the chunk is kept; a '%' followed by fewer than two characters or by two
\* that are not both hex digits stays with the text after it ('%', '%x',
\* '%xab'); '+' becomes a space in query context only.
C10_DecodeTolerant ==
    cod.fn = "decode" =>
        /\ cod.out = Scanned(cod.s, cod.query)
        /\ cod.s \in {<<37>>, <<37, 120>>, <<37, 120, 97, 98>>} => cod.out = cod.s
        /\ (cod.s = <<Plus>>) => cod.out = IF cod.query THEN <<Space>> ELSE <<Plus>>

\* '%%aB' decoded: the lone '%' is kept and '%aB' became character 0xAB.
C10_Witness ==
    /\ cod.fn = "decode"
    /\ cod.s = <<Percent, Percent, 97, 66>>
    /\ cod.out = <<Percent, 171>>

\* ------------------------------------------------------------------ C11
\* The sixteen upper-case hex digits, '0123456789ABCDEF'.
UpperHexDigits == <<48, 49, 50, 51, 52, 53, 54, 55, 56, 57, 65, 66, 67, 68, 69, 70>>

Escaped(c) == <<Percent, UpperHexDigits[(c \div 16) + 1], UpperHexDigits[(c % 16) + 1]>>

IsUnreserved(c) ==
    \/ c \in 65..90
    \/ c \in 97..122
    \/ c \in 48..57
    \/ c \in {95, 46, 45, 126}

\* What one character becomes according to the claim.
Image(c, query) ==
    IF IsUnreserved(c) THEN <<c>>
    ELSE IF c = Slash THEN (IF query THEN Escaped(Slash) ELSE <<Slash>>)
    ELSE IF c = Space THEN (IF query THEN <<Plus>> ELSE Escaped(Space))
    ELSE Escaped(c)

RECURSIVE Images(_, _)
Images(s, query) ==
    IF s = <<>> THEN <<>> ELSE Image(s[1], query) \o Images(Tail(s), query)

\* C11: encode keeps every unreserved character in both contexts, keeps '/'
\* in path context only ('%2F' in query context), writes a space as '%20'
\* in path context and '+' in query context, and writes every other
\* character as '%' and the two upper-case hex digits of its code point;
\* the output is these images joined in input order.
C11_EncodePerCharacter ==
    cod.fn = "encode" =>
        /\ cod.out = Images(cod.s, cod.query)
        /\ cod.s = <<Slash>> => cod.out = IF cod.query THEN <<Percent, 50, 70>> ELSE <<Slash>>
        /\ cod.s = <<Space>> => cod.out = IF cod.query THEN <<Plus>> ELSE <<Percent, 50, 48>>
        /\ cod.s = <<91>> => cod.out = <<Percent, 53, 66>>

\* '/ ' encoded for a query: '%2F+'.
C11_Witness ==
    /\ cod.fn = "encode"
    /\ cod.query
    /\ cod.s = <<Slash, Space>>
    /\ cod.out = <<Percent, 50, 70, Plus>>

\* ------------------------------------------------------------------ C12
\* C12: decode reverses encode: decode(encode(s, ctx), ctx) = s in both
\* contexts for every string of unreserved characters and for every string
\* of code points below 256 ('%', '+', space and '/' included).
C12_DecodeReversesEncode ==
    cod.fn = "roundtrip" => cod.out = cod.s

\* '%+' went through encode ('%25%2B') and decode in query context and
\* came back as '%+'.
C12_Witness ==
    /\ cod.fn = "roundtrip"
    /\ cod.query
    /\ cod.s = <<Percent, Plus>>
    /\ encode(cod.s, cod.query) = <<Percent, 50, 53, Percent, 50, 66>>
    /\ cod.out = <<Percent, Plus>>

\* ------------------------------------------------------------------- C7
\* C7: every stored key is lower-case and no two keys agree up to case;
\* contains and get answer alike for names that differ only in case; add
\* under another casing extends the same field; del under another casing
\* removes the field with all of its values.
C7_CaseInsensitiveNames ==
    /\ \A i \in 1..Len(q) :
          /\ HasNoUpper(q[i].name)
          /\ FieldsNamed(q, q[i].name) = {i}
    /\ \A n \in NameInputs, m \in NameInputs :
          SameModuloCase(n, m) =>
              /\ QueryDict_contains(q, n) = QueryDict_contains(q, m)
              /\ QueryDict_contains(q, n) = (FieldsNamed(q, m) # {})
              /\ QueryDict_get(q, n, None) = QueryDict_get(q, m, None)
    /\ op.kind = "add" =>
          /\ Len(q) = Len(pre) + (IF FieldsNamed(pre, op.name) = {} THEN 1 ELSE 0)
          /\ \A i \in FieldsNamed(pre, op.name) :
                q[i].values = pre[i].values \o <<op.value>>
    /\ op.kind = "del" =>
          IF FieldsNamed(pre, op.name) = {}
          THEN res = "KeyError" /\ q = pre
          ELSE /\ res = "ok"
               /\ FieldsNamed(q, op.name) = {}
               /\ \A i \in FieldsNamed(pre, op.name) : q = Without(pre, i)

\* A field stored under 'a' was extended by add('A', ...), or deleted with
\* two values by del d['A'].
C7_Witness ==
    /\ op.name = <<65>>
    /\ \E i \in 1..Len(pre) : pre[i].name = <<97>>
    /\ \/ op.kind = "add" /\ \E i \in 1..Len(q) : q[i].name = <<97>> /\ q[i].isList
       \/ op.kind = "del" /\ NumValues(q) = NumValues(pre) - 2

====
